---- MODULE Spec2Model ----
(***************************************************************************)
(* PathManager of src/main.py: a tree of nested dicts keyed by path        *)
(* segments, each node carrying a property record under the key "//".      *)
(*                                                                         *)
(* A path string is represented by the sequence of its segments, i.e. by   *)
(* path.split("/"); "/".join is the inverse, so the representation is      *)
(* exact: "" is <<"">>, "/a" is <<"", "a">>, "a/" is <<"a", "">>.          *)
(*                                                                         *)
(* A dict keeps insertion order and every node's "//" key is inserted      *)
(* first, so the nested dicts are represented by the sequence of their     *)
(* nodes in pre-order, each with the identity of its property object.      *)
(* Property objects live in `heap`; identity 0 is the object held by       *)
(* self.path_properties, which remove_path hands out uncopied.             *)
(*                                                                         *)
(* Spec and SpecDeep run add_path and remove_path on a new store, SpecData *)
(* adds set_data and the construction from a dict.  SpecPathPy runs        *)
(* add_path and remove_path of the PathManager of src/path.py, whose tree  *)
(* has the same shape and is kept in the same variables.                   *)
(***************************************************************************)
EXTENDS Integers, Sequences, FiniteSets, TLC

VARIABLES
    data,             \* self.data: the nodes in pre-order, [path, ref]
    data_is_None,     \* self.data is None, and `data` then stands for nothing
    heap,             \* the property dicts the nodes refer to, by identity
    path_properties,  \* the dict self.path_properties refers to
    now,              \* the second the clock last showed
    ops,              \* the number of calls made so far
    last              \* the last call: its path, the filesystem's answer, its end,
                      \* the value it was given and the tree it found

vars == <<data, data_is_None, heap, path_properties, now, ops, last>>

\* ---------------------------------------------------------------- bounds
MaxOps == 3        \* calls made on the store, any path string and any answer
MaxDeepOps == 5    \* calls made on the store, existing directories only
MaxDataOps == 3    \* calls made on a store constructed with or without data
MaxPathPyOps == 3  \* calls made on the store of path.py
MaxTime == 2       \* last second the clock reaches

\* ------------------------------------------------------- program constants
NULL == 0          \* None, as the value of stored_in
TMPL == 0          \* identity of the object self.path_properties refers to

EmptyString == <<"">>

\* The path strings calls are made with: "", "a", "b", "/a", "a/", "a/a",
\* "a/b", "a/c", each as path.split("/").
PathStrings ==
    { <<"">>, <<"a">>, <<"b">>, <<"", "a">>, <<"a", "">>,
      <<"a", "a">>, <<"a", "b">>, <<"a", "c">> }

\* The path strings of the calls that all name existing directories:
\* "a", "a/b", "b/a", "/a", "a/".
DeepPaths == { <<"a">>, <<"a", "b">>, <<"b", "a">>, <<"", "a">>, <<"a", "">> }

\* ------------------------------------------------------ filesystem oracle
\* What the filesystem can answer for a path string when it is asked:
\* "" never exists, a string of separators only is the root directory, a
\* string ending in a separator names a directory or nothing.
Kinds(path) ==
    IF path = EmptyString THEN {"absent"}
    ELSE IF \A i \in 1..Len(path) : path[i] = "" THEN {"dir"}
    ELSE IF path[Len(path)] = "" THEN {"absent", "dir"}
    ELSE {"absent", "file", "dir"}

\* an oracle that finds every path
exists_always(kind) == TRUE

exists(kind) == kind # "absent"
isfile(kind) == kind = "file"

\* ------------------------------------------------------------ tree access
IsPrefix(p, q) == Len(p) <= Len(q) /\ SubSeq(q, 1, Len(p)) = p

HasNode(d, path) == \E i \in 1..Len(d) : d[i].path = path

IndexOf(d, path) == CHOOSE i \in 1..Len(d) : d[i].path = path

RefOf(d, path) == d[IndexOf(d, path)].ref

\* obj[part] = {} appends the key to obj: the new node comes after the last
\* node below obj
InsertPos(d, parent) ==
    IF parent = <<>> THEN Len(d)
    ELSE LET S == {i \in 1..Len(d) : IsPrefix(parent, d[i].path)}
         IN  CHOOSE i \in S : \A j \in S : j <= i

InsertNode(d, path, ref) ==
    LET pos == InsertPos(d, SubSeq(path, 1, Len(path) - 1))
    IN  SubSeq(d, 1, pos) \o <<[path |-> path, ref |-> ref]>> \o SubSeq(d, pos + 1, Len(d))

\* the record a property object holds
Deref(h, t, ref) == IF ref = TMPL THEN t ELSE h[ref]

PropsOf(d, h, t, path) == Deref(h, t, RefOf(d, path))

\* ---------------------------------------------------------------- _add
update_properties(properties, file, stored_, stored_in) ==
    [file      |-> file,
     stored    |-> stored_,
     stored_in |-> IF stored_in # NULL THEN stored_in ELSE properties.stored_in]

\* the value of the parameter `file` when the caller leaves it out
update_properties_file_default == FALSE

\* write through a reference: the object itself changes, for every holder
Store(st, ref, rec) ==
    IF ref = TMPL THEN [st EXCEPT !.t = rec] ELSE [st EXCEPT !.h[ref] = rec]

\* one iteration of `for part in parts`
AddStep(st, parts, i, is_file, time) ==
    LET node      == SubSeq(parts, 1, i)
        is_stored == parts[i] = parts[Len(parts)]
    IN  IF ~HasNode(st.d, node)
        THEN [st EXCEPT
                !.d = InsertNode(st.d, node, Len(st.h) + 1),
                !.h = Append(st.h, update_properties(st.t, is_file, is_stored,
                                       IF is_stored THEN time ELSE NULL))]
        ELSE IF is_stored
             THEN LET ref == RefOf(st.d, node)
                  IN  Store(st, ref, update_properties(Deref(st.h, st.t, ref),
                                        update_properties_file_default, is_stored, time))
             ELSE st

RECURSIVE AddLoop(_, _, _, _, _)
AddLoop(st, parts, i, is_file, time) ==
    IF i > Len(parts) THEN st
    ELSE AddLoop(AddStep(st, parts, i, is_file, time), parts, i + 1, is_file, time)

\* ------------------------------------------------------------- _get_all
\* part.removesuffix("\\"): a name that ends in a backslash loses it; of the
\* names used here none does, "b\\" stands for the ones that do
removesuffix(part) == IF part = "b\\" THEN "b" ELSE part

RECURSIVE Listed(_)
\* the string _get_all builds for a node: current_path of the recursion
Listed(node) ==
    IF node = <<>> THEN EmptyString
    ELSE LET current_path == Listed(SubSeq(node, 1, Len(node) - 1))
             part         == node[Len(node)]
         IN  IF current_path # EmptyString THEN Append(current_path, part)
             ELSE <<removesuffix(part)>>

RECURSIVE GetAllFrom(_, _, _, _)
GetAllFrom(d, h, t, i) ==
    IF i > Len(d) THEN <<>>
    ELSE (IF Deref(h, t, d[i].ref).stored THEN <<Listed(d[i].path)>> ELSE <<>>)
         \o GetAllFrom(d, h, t, i + 1)

_get_all(d, h, t) == GetAllFrom(d, h, t, 1)

get_all == _get_all(data, heap, path_properties)

Range(s) == {s[i] : i \in 1..Len(s)}

in_the_data(path) == path \in Range(get_all)

\* ------------------------------------------------------ object identities
\* Identities are renumbered in order of first use and objects nothing
\* refers to are dropped: two stores that differ only in the addresses of
\* their objects are the same store.
RECURSIVE FirstRefs(_, _, _)
FirstRefs(d, i, acc) ==
    IF i > Len(d) THEN acc
    ELSE FirstRefs(d, i + 1,
                   IF d[i].ref = TMPL \/ d[i].ref \in Range(acc) THEN acc
                   ELSE Append(acc, d[i].ref))

Renumber(st) ==
    LET order == FirstRefs(st.d, 1, <<>>)
        new(r) == IF r = TMPL THEN TMPL ELSE CHOOSE k \in 1..Len(order) : order[k] = r
    IN  [d |-> [i \in 1..Len(st.d) |-> [path |-> st.d[i].path, ref |-> new(st.d[i].ref)]],
         h |-> [k \in 1..Len(order) |-> st.h[order[k]]],
         t |-> st.t]

Current == [d |-> data, h |-> heap, t |-> path_properties]

Install(st) ==
    LET n == Renumber(st)
    IN  /\ data' = n.d
        /\ heap' = n.h
        /\ path_properties' = n.t

\* ------------------------------------------------------------------ Init
\* the objects a caller hands in as `data`: a dict is given by its nodes and
\* records, anything else by the name of its type
None == [type |-> "NoneType", d |-> <<>>, h |-> <<>>]

\* {}, {"a": {"//": stored}} and {"a": {"//": blank, "b": {"//": stored}}}
Mappings ==
    { [type |-> "dict", d |-> <<>>, h |-> <<>>],
      [type |-> "dict",
       d |-> <<[path |-> <<"a">>, ref |-> 1]>>,
       h |-> <<[file |-> FALSE, stored |-> TRUE, stored_in |-> 1]>>],
      [type |-> "dict",
       d |-> <<[path |-> <<"a">>, ref |-> 1], [path |-> <<"a", "b">>, ref |-> 2]>>,
       h |-> <<[file |-> FALSE, stored |-> FALSE, stored_in |-> NULL],
               [file |-> TRUE, stored |-> TRUE, stored_in |-> 1]>>] }

\* a list and a string
NonMappings ==
    { [type |-> "list", d |-> <<>>, h |-> <<>>],
      [type |-> "str", d |-> <<>>, h |-> <<>>] }

isinstance_dict(value) == value.type = "dict"

\* the keys of the module's dict msg
msg == {"TypeError", "FileNotFoundError"}

\* raise TypeError(msg["type_error"]...): the subscript is evaluated first
raise_TypeError == IF "type_error" \in msg THEN "TypeError" ELSE "KeyError"

\* __init__ without storage_file: self.data is {} when no data is given and
\* what set_data returns, None, when a dict is given
__init__(value) ==
    /\ data = <<>>
    /\ data_is_None = (value # None)
    /\ heap = <<>>
    /\ path_properties = [file |-> FALSE, stored |-> FALSE, stored_in |-> NULL]
    /\ now = 1
    /\ ops = 0
    /\ last = [op |-> "init", path |-> EmptyString, kind |-> "absent", outcome |-> "ok",
               value |-> value, before |-> None]

Init == __init__(None)

\* what the call just made was, what the filesystem answered for its path,
\* and how it ended
Called(op, path, kind, outcome) ==
    last' = [op |-> op, path |-> path, kind |-> kind, outcome |-> outcome,
             value |-> None, before |-> None]

\* -------------------------------------------------------------- add_path
\* _add without the test of line 66
_add_unchecked(parts, kind, time) ==
    IF data_is_None
    THEN /\ UNCHANGED <<data, heap, path_properties>>
         /\ Called("add_path", parts, kind, "TypeError")
    ELSE /\ Install(AddLoop(Current, parts, 1, isfile(kind), time))
         /\ Called("add_path", parts, kind, "ok")

\* `part not in obj` raises TypeError when obj is None
_add(parts, kind, time) ==
    IF ~exists(kind)
    THEN /\ UNCHANGED <<data, heap, path_properties>>
         /\ Called("add_path", parts, kind, "FileNotFoundError")
    ELSE IF data_is_None
    THEN /\ UNCHANGED <<data, heap, path_properties>>
         /\ Called("add_path", parts, kind, "TypeError")
    ELSE /\ Install(AddLoop(Current, parts, 1, isfile(kind), time))
         /\ Called("add_path", parts, kind, "ok")

add_path(path, kind, time) ==
    /\ now' = time
    /\ UNCHANGED data_is_None
    /\ IF path = EmptyString
       THEN /\ UNCHANGED <<data, heap, path_properties>>
            /\ Called("add_path", path, kind, "returned")
       ELSE _add(path, kind, time)

\* --------------------------------------------------------- get_properties
\* walks self.data along path.split("/"): KeyError when a key is missing
get_properties_fails(path) == ~HasNode(data, path)

get_properties(path) == RefOf(data, path)

\* ----------------------------------------------------------- remove_path
\* list.remove: drops the first occurrence
RECURSIVE ListRemove(_, _)
ListRemove(s, x) ==
    IF s = <<>> THEN <<>>
    ELSE IF Head(s) = x THEN Tail(s)
    ELSE <<Head(s)>> \o ListRemove(Tail(s), x)

\* the nested __add: `for part in parts` for one listed path
RECURSIVE RebuildPath(_, _, _)
RebuildPath(d, parts, i) ==
    IF i > Len(parts) THEN d
    ELSE LET node == SubSeq(parts, 1, i)
         IN  RebuildPath(
                IF HasNode(d, node) THEN d
                ELSE InsertNode(d, node,
                        IF parts[i] = parts[Len(parts)] THEN get_properties(parts)
                        ELSE TMPL),
                parts, i + 1)

RECURSIVE Rebuild(_, _)
Rebuild(d, paths) ==
    IF paths = <<>> THEN d
    ELSE Rebuild(RebuildPath(d, Head(paths), 1), Tail(paths))

\* get_all() raises AttributeError when self.data is None
remove_path(path, kind) ==
    /\ UNCHANGED <<now, data_is_None>>
    /\ LET fail(e) == /\ UNCHANGED <<data, heap, path_properties>>
                      /\ Called("remove_path", path, kind, e)
           paths   == ListRemove(get_all, path)
       IN  IF path = EmptyString THEN fail("returned")
           ELSE IF ~exists(kind) THEN fail("FileNotFoundError")
           ELSE IF data_is_None THEN fail("AttributeError")
           ELSE IF path \notin Range(get_all) THEN fail("ValueError")
           ELSE IF \E k \in 1..Len(paths) : get_properties_fails(paths[k])
                THEN fail("KeyError")
           ELSE /\ Install([d |-> Rebuild(<<>>, paths), h |-> heap, t |-> path_properties])
                /\ Called("remove_path", path, kind, "ok")

\* -------------------------------------------------------------- set_data
set_data(value) ==
    /\ UNCHANGED now
    /\ IF ~isinstance_dict(value)
       THEN /\ UNCHANGED <<data, data_is_None, heap, path_properties>>
            /\ last' = [op |-> "set_data", path |-> EmptyString, kind |-> "absent",
                        outcome |-> raise_TypeError, value |-> value, before |-> None]
       ELSE /\ Install([d |-> value.d, h |-> value.h, t |-> path_properties])
            /\ data_is_None' = FALSE
            /\ last' = [op |-> "set_data", path |-> EmptyString, kind |-> "absent",
                        outcome |-> "ok", value |-> value, before |-> None]

\* ------------------------------------------------------------ environment
\* the clock read by utcnow(): it never runs backwards
Clock == {t \in now..(now + 1) : t <= MaxTime}

\* os.path.exists is all remove_path asks: a directory stands for whatever
\* is found
Found(path) == Kinds(path) \ {"file"}

Call(bound) == ops < bound /\ ops' = ops + 1

\* ------------------------------------------------ any call, any answer
AddPath ==
    /\ Call(MaxOps)
    /\ \E path \in PathStrings : \E kind \in Kinds(path) : \E time \in Clock :
          add_path(path, kind, time)

RemovePath ==
    /\ Call(MaxOps)
    /\ \E path \in PathStrings : \E kind \in Found(path) : remove_path(path, kind)

Next == AddPath \/ RemovePath

Spec == Init /\ [][Next]_vars

\* ------------------------------- longer runs, existing directories only
AddDir ==
    /\ Call(MaxDeepOps)
    /\ \E path \in DeepPaths : \E time \in Clock : add_path(path, "dir", time)

RemoveDir ==
    /\ Call(MaxDeepOps)
    /\ \E path \in DeepPaths : remove_path(path, "dir")

NextDeep == AddDir \/ RemoveDir

SpecDeep == Init /\ [][NextDeep]_vars

\* ------------------- a store constructed with or without data, set_data
\* The path strings of the calls made on it: "a", "b", "a/b".
DataPaths == { <<"a">>, <<"b">>, <<"a", "b">> }

InitData == \E value \in Mappings \cup {None} : __init__(value)

SetData ==
    /\ Call(MaxDataOps)
    /\ \E value \in Mappings \cup NonMappings : set_data(value)

AddData ==
    /\ Call(MaxDataOps)
    /\ \E path \in DataPaths : \E kind \in Kinds(path) : \E time \in Clock :
          add_path(path, kind, time)

RemoveData ==
    /\ Call(MaxDataOps)
    /\ \E path \in DataPaths : \E kind \in Found(path) : remove_path(path, kind)

NextData == SetData \/ AddData \/ RemoveData

SpecData == InitData /\ [][NextData]_vars

\* =================================================== PathManager of path.py
\* The variant of src/path.py keeps the same tree in the same variables; it
\* takes its segments from pathlib, copies the template for every new node
\* and removes a path by deleting its node.

\* str.lower, on the names used here
lower(part) == IF part = "A" THEN "a" ELSE part

\* the number of separators a path string starts with
LeadingSeparators(path) ==
    IF \A i \in 1..Len(path) : path[i] = "" THEN Len(path) - 1
    ELSE Cardinality({i \in 1..Len(path) : \A j \in 1..i : path[j] = ""})

\* pathlib.Path(path.lower()).parts: the anchor first ("//" for exactly two
\* leading separators, "/" for any other number), then the segments that
\* are neither empty nor "."
to_path(path) ==
    LET names  == SelectSeq(path, LAMBDA part : part # "" /\ part # ".")
        anchor == IF LeadingSeparators(path) = 0 THEN <<>>
                  ELSE IF LeadingSeparators(path) = 2 THEN <<"//">>
                  ELSE <<"/">>
    IN  anchor \o [i \in 1..Len(names) |-> lower(names[i])]

\* What the filesystem can answer for the Path: the working directory and
\* the root are directories that are always there.
PathKinds(path) ==
    IF \A i \in 1..Len(to_path(path)) : to_path(path)[i] \in {"/", "//"} THEN {"dir"}
    ELSE {"absent", "file", "dir"}

\* The path strings calls are made with: "", "a", "b", "/a", "a/", "A/b",
\* "a/b/c".
PathPyStrings ==
    { <<"">>, <<"a">>, <<"b">>, <<"", "a">>, <<"a", "">>, <<"A", "b">>,
      <<"a", "b", "c">> }

path_update_properties(properties, file, stored_, stored_in) ==
    [file |-> file, stored |-> stored_, stored_in |-> stored_in]

\* one iteration of `for part in parts`
path_AddStep(st, parts, i, is_file, time) ==
    LET node      == SubSeq(parts, 1, i)
        is_stored == parts[i] = parts[Len(parts)]
    IN  IF ~HasNode(st.d, node)
        THEN [st EXCEPT
                !.d = InsertNode(st.d, node, Len(st.h) + 1),
                !.h = Append(st.h, path_update_properties(st.t, is_file, is_stored,
                                       IF is_stored THEN time ELSE NULL))]
        ELSE IF is_stored
             THEN LET ref == RefOf(st.d, node)
                  IN  Store(st, ref, path_update_properties(Deref(st.h, st.t, ref),
                                        is_file, is_stored, time))
             ELSE st

RECURSIVE path_AddLoop(_, _, _, _, _)
path_AddLoop(st, parts, i, is_file, time) ==
    IF i > Len(parts) THEN st
    ELSE path_AddLoop(path_AddStep(st, parts, i, is_file, time), parts, i + 1, is_file, time)

\* the call made, and the tree it found
PathCalled(op, path, kind, outcome) ==
    last' = [op |-> op, path |-> path, kind |-> kind, outcome |-> outcome,
             value |-> None, before |-> [type |-> "dict", d |-> data, h |-> heap]]

path_add_path(path, kind, time) ==
    /\ now' = time
    /\ UNCHANGED data_is_None
    /\ IF ~exists(kind)
       THEN /\ UNCHANGED <<data, heap, path_properties>>
            /\ PathCalled("add_path", path, kind, "FileNotFoundError")
       ELSE /\ Install(path_AddLoop(Current, to_path(path), 1, isfile(kind), time))
            /\ PathCalled("add_path", path, kind, "ok")

\* obj[part] and del obj[parts[-1]] raise KeyError for a key that is missing
_rm_fails(d, parts) == parts # <<>> /\ ~HasNode(d, parts)

\* a deletion that takes the node out from above its children
_rm_node_only(d, parts) ==
    IF parts = <<>> THEN d
    ELSE SelectSeq(d, LAMBDA n : n.path # parts)

\* `if parts:` and del obj[parts[-1]]: the node goes with all that is below
\* it
_rm(d, parts) ==
    IF parts = <<>> THEN d
    ELSE SelectSeq(d, LAMBDA n : ~IsPrefix(parts, n.path))

RECURSIVE Pruned(_, _)
\* d without the nodes above `node` that are left with nothing stored below
Pruned(st, node) ==
    IF node = <<>> \/ ~HasNode(st.d, node) THEN st.d
    ELSE IF \E i \in 1..Len(st.d) :
               IsPrefix(node, st.d[i].path) /\ Deref(st.h, st.t, st.d[i].ref).stored
    THEN st.d
    ELSE Pruned([st EXCEPT !.d = SelectSeq(st.d, LAMBDA n : n.path # node)],
                SubSeq(node, 1, Len(node) - 1))

\* a removal that goes on upward through the emptied ancestors
path_remove_path_pruning(path, kind) ==
    /\ UNCHANGED <<now, data_is_None>>
    /\ IF ~exists(kind)
       THEN /\ UNCHANGED <<data, heap, path_properties>>
            /\ PathCalled("remove_path", path, kind, "FileNotFoundError")
       ELSE IF _rm_fails(data, to_path(path))
       THEN /\ UNCHANGED <<data, heap, path_properties>>
            /\ PathCalled("remove_path", path, kind, "KeyError")
       ELSE /\ Install([d |-> Pruned([d |-> _rm(data, to_path(path)), h |-> heap,
                                      t |-> path_properties],
                                     SubSeq(to_path(path), 1, Len(to_path(path)) - 1)),
                        h |-> heap, t |-> path_properties])
            /\ PathCalled("remove_path", path, kind, "ok")

path_remove_path(path, kind) ==
    /\ UNCHANGED <<now, data_is_None>>
    /\ IF ~exists(kind)
       THEN /\ UNCHANGED <<data, heap, path_properties>>
            /\ PathCalled("remove_path", path, kind, "FileNotFoundError")
       ELSE IF _rm_fails(data, to_path(path))
       THEN /\ UNCHANGED <<data, heap, path_properties>>
            /\ PathCalled("remove_path", path, kind, "KeyError")
       ELSE /\ Install([d |-> _rm(data, to_path(path)), h |-> heap, t |-> path_properties])
            /\ PathCalled("remove_path", path, kind, "ok")

\* __init__ of path.py: self.data is the dict given, {} when none is
path___init__(value) ==
    /\ data = value.d
    /\ data_is_None = FALSE
    /\ heap = value.h
    /\ path_properties = [file |-> FALSE, stored |-> FALSE, stored_in |-> NULL]
    /\ now = 1
    /\ ops = 0
    /\ last = [op |-> "init", path |-> EmptyString, kind |-> "absent", outcome |-> "ok",
               value |-> value, before |-> None]

InitPathPy == path___init__(None)

PathPyAdd ==
    /\ Call(MaxPathPyOps)
    /\ \E path \in PathPyStrings : \E kind \in PathKinds(path) : \E time \in Clock :
          path_add_path(path, kind, time)

PathPyRemove ==
    /\ Call(MaxPathPyOps)
    /\ \E path \in PathPyStrings : \E kind \in PathKinds(path) \ {"file"} :
          path_remove_path(path, kind)

NextPathPy == PathPyAdd \/ PathPyRemove

SpecPathPy == InitPathPy /\ [][NextPathPy]_vars

\* ================================================================ claims
Nodes(d) == {d[i].path : i \in 1..Len(d)}

\* the nodes whose property record has stored = True
StoredNodes(d, h, t) == {d[i].path : i \in {j \in 1..Len(d) : Deref(h, t, d[j].ref).stored}}

Count(s, x) == Cardinality({i \in 1..Len(s) : s[i] = x})

AllDifferent(parts) ==
    \A i, j \in 1..Len(parts) : i # j => parts[i] # parts[j]

AddedOk == last.op = "add_path" /\ last.outcome = "ok"
RemovedOk == last.op = "remove_path" /\ last.outcome = "ok"

\* C1: after a successful add_path(p), in_the_data(p) is true and p occurs
\* exactly once in get_all().
C1_RegisteredIsListedOnce ==
    AddedOk => in_the_data(last.path) /\ Count(get_all, last.path) = 1

\* C2: after remove_path(p) has returned for a p whose node was stored,
\* in_the_data(p) is false.
C2_RemovedIsNotListed ==
    [][(RemovedOk' /\ last'.path \in StoredNodes(data, heap, path_properties))
         => last'.path \notin Range(get_all')]_vars

\* C3: a successful add_path(p) sets stored on the terminal node of p only:
\* the stored nodes afterwards are the stored nodes before plus p.
C3_RegisterMarksTerminalOnly ==
    [][AddedOk' =>
         StoredNodes(data', heap', path_properties')
            = StoredNodes(data, heap, path_properties) \cup {last'.path}]_vars

\* C4: a successful remove_path(p), for a p whose node was stored, takes p,
\* and nothing else, out of the stored nodes, and puts nothing in.
C4_UnregisterRemovesOnlyP ==
    [][(RemovedOk' /\ last'.path \in StoredNodes(data, heap, path_properties)) =>
         StoredNodes(data', heap', path_properties')
            = StoredNodes(data, heap, path_properties) \ {last'.path}]_vars

C6_ReRegisterKeepsAllButTimestamp ==
    [][(/\ AddedOk'
        /\ last'.path \in StoredNodes(data, heap, path_properties)
        /\ PropsOf(data, heap, path_properties, last'.path).file = isfile(last'.kind))
         => (/\ [i \in 1..Len(data') |-> data'[i].path] = [i \in 1..Len(data) |-> data[i].path]
             /\ StoredNodes(data', heap', path_properties')
                  = StoredNodes(data, heap, path_properties)
             /\ \A n \in Nodes(data) :
                  PropsOf(data', heap', path_properties', n).file
                     = PropsOf(data, heap, path_properties, n).file)]_vars

\* C7: every node add_path(p) creates above the terminal node of p gets
\* stored = False, file = False and stored_in = None; stated for the paths
\* whose segment names all differ (a repeated name is the case of C3).
C7_NewStructuralNodesAreBlank ==
    [][(AddedOk' /\ AllDifferent(last'.path)) =>
         \A n \in Nodes(data') \ (Nodes(data) \cup {last'.path}) :
            PropsOf(data', heap', path_properties', n)
               = [file |-> FALSE, stored |-> FALSE, stored_in |-> NULL]]_vars

\* C8: in every node's record, stored is true exactly when stored_in is not
\* None.
C8_StoredIffTimestamp ==
    \A i \in 1..Len(data) :
       LET p == Deref(heap, path_properties, data[i].ref)
       IN  p.stored <=> p.stored_in # NULL

\* C9: every node is stored or lies above a stored node.
C9_NoOrphanNodes ==
    \A n \in Nodes(data) :
       \E m \in StoredNodes(data, heap, path_properties) : IsPrefix(n, m)

\* C10: add_path(p) for a non-empty p that the filesystem does not have
\* raises FileNotFoundError and leaves nodes, records and template as they
\* were.
C10_RegisterOfMissingPathFails ==
    [][(last'.op = "add_path" /\ last'.kind = "absent" /\ last'.path # EmptyString)
         => (/\ last'.outcome = "FileNotFoundError"
             /\ UNCHANGED <<data, heap, path_properties>>)]_vars

\* a missing path was refused on a tree that holds nodes
C10_Witness ==
    /\ last.op = "add_path" /\ last.kind = "absent" /\ last.path # EmptyString
    /\ last.outcome = "FileNotFoundError"
    /\ data # <<>>

\* C11: remove_path(p) for a non-empty p whose node is not stored (no such
\* node, or a node that is there for its descendants only) ends in an error
\* raised to the caller, and get_all() returns afterwards what it returned
\* before.
C11_UnregisterOfUnregisteredFails ==
    [][(/\ last'.op = "remove_path"
        /\ last'.path # EmptyString
        /\ last'.path \notin StoredNodes(data, heap, path_properties))
         => (/\ last'.outcome \in {"FileNotFoundError", "ValueError", "KeyError"}
             /\ get_all' = get_all)]_vars

\* C12: for every node whose record has stored = True, get_all() emits the
\* keys from the root to the node joined by "/": the string whose split
\* gave those keys, a first key that is the empty string included.
C12_ListingJoinsTheKeys ==
    \A i \in 1..Len(data) :
       Deref(heap, path_properties, data[i].ref).stored
          => Listed(data[i].path) = data[i].path

\* C13: add_path(p) for a p that is the empty string or holds separators
\* only ends in an error raised to the caller and leaves nodes, records and
\* template as they were.
C13_RegisterOfEmptyPathFails ==
    [][(last'.op = "add_path" /\ \A i \in 1..Len(last'.path) : last'.path[i] = "")
         => (/\ last'.outcome \notin {"ok", "returned"}
             /\ UNCHANGED <<data, heap, path_properties>>)]_vars

\* C14: set_data(v) for a v that is not a dict raises TypeError and leaves
\* the store as it was; for a dict it makes that dict the tree of the store.
C14_SetDataChecksItsArgument ==
    [][last'.op = "set_data" =>
         IF isinstance_dict(last'.value)
         THEN /\ last'.outcome = "ok"
              /\ ~data_is_None'
              /\ data' = last'.value.d
              /\ heap' = last'.value.h
         ELSE /\ last'.outcome = "TypeError"
              /\ UNCHANGED <<data, data_is_None, heap, path_properties>>]_vars

\* C15: a PathManager constructed with a dict as data and no storage_file
\* holds that dict: get_data() returns it and get_all() lists its stored
\* paths; constructed with neither, it holds the empty tree.
C15_ConstructedWithDataHoldsIt ==
    last.op = "init" =>
       /\ ~data_is_None
       /\ data = last.value.d
       /\ heap = last.value.h

\* C16: no node is keyed by the empty string, so path strings that differ
\* in leading, trailing or doubled separators only never give two nodes.
C16_NoNodeKeyedByEmptyString ==
    \A n \in Nodes(data) : \A i \in 1..Len(n) : n[i] # ""

\* the node path.py's remove_path(last.path) is about
Removed == to_path(last.path)

Below(parts, d) == {n \in Nodes(d) : n # parts /\ IsPrefix(parts, n)}

C19_TemplateIsNeverWritten ==
    /\ path_properties = [file |-> FALSE, stored |-> FALSE, stored_in |-> NULL]
    /\ \A i \in 1..Len(data) : data[i].ref # TMPL

\* C20: a successful remove_path(p), for a p whose node was stored, leaves
\* every other stored node q where it was, get_properties(q) giving the
\* file flag and the stored_in it gave before.
C20_UnregisterKeepsOtherMetadata ==
    [][(RemovedOk' /\ last'.path \in StoredNodes(data, heap, path_properties)) =>
         \A q \in StoredNodes(data, heap, path_properties) \ {last'.path} :
            /\ HasNode(data', q)
            /\ PropsOf(data', heap', path_properties', q).file
                 = PropsOf(data, heap, path_properties, q).file
            /\ PropsOf(data', heap', path_properties', q).stored_in
                 = PropsOf(data, heap, path_properties, q).stored_in]_vars

====
